---------------------------- MODULE Spec2Model ----------------------------
(***************************************************************************)
(* gsvpd: asynchronous download, dimension resolution, stitching and       *)
(* persistence of Street View panoramas (src/gsvpd/core.py).               *)
(*                                                                         *)
(* The model follows asyncio's cooperative scheduling: an action is the    *)
(* code a coroutine runs between two suspension points (await).            *)
(*   fetch_tile          FetchStart, GetResponse, GetFail, ReadDone,       *)
(*                       ReadFail, SleepDone                               *)
(*   process_panoid      JobStart, JobAcquire, GatherReturn,               *)
(*                       ExecutorReturn, ExecutorFail                      *)
(*   fetch_panos         BatchStart, BatchReturn                           *)
(*   determine_dimensions  DimCall, DimExecutorReturn, DimExecutorFail     *)
(*                       (a call made on its own)                          *)
(*   stitch_tiles        StitchCall (a call made on its own)               *)
(*                                                                         *)
(* Python's None is the empty tuple; a tile is <<x, y, image>>, a size is  *)
(* <<width, height>>, and the dict process_panoid returns is the tuple     *)
(* <<panoid, zoom, size, tiles, file_size>>.                               *)
(***************************************************************************)
EXTENDS Integers, Sequences, FiniteSets, TLC

VARIABLES
    zoom_level,   \* the zoom level the batch (or the direct call) is given
    panoids,      \* fetch_panos' list of panorama identifiers
    retries,      \* fetch_tile's attempt limit
    max_pano,     \* initial value of the panorama semaphore (run.py:18)
    max_tile,     \* configured tile concurrency (run.py:19), unused by core.py
    sem_pano,     \* current value of sem_pano
    batch,        \* fetch_panos: position, session, executor, returned tuple
    job,          \* process_panoid coroutines, one per position of panoids
    tile,         \* live fetch_tile coroutines, keyed <<job, <<x, y>>>>
    files,        \* identifiers whose artifact save_img has written
    fake,         \* None, or the tests' fake_fetch_tile patched over fetch_tile
    dim,          \* a determine_dimensions call made on its own
    stitch        \* a stitch_tiles call made on its own

vars == <<zoom_level, panoids, retries, max_pano, max_tile, sem_pano,
          batch, job, tile, files, fake, dim, stitch>>

---------------------------------------------------------------------------
(* Bounds of the model.                                                    *)

MaxRetries == 4        \* attempt limits 0..MaxRetries for a direct fetch_tile call
MaxPanos == 3          \* identifier lists of length 0..MaxPanos
MaxCells == 2          \* a batch requests at most this many grid cells in all
MaxPanoConc == 2       \* the panorama semaphore starts at 1..MaxPanoConc
MaxTileConc == 1       \* the configured tile concurrency
MaxCount == 33         \* observed tile counts 0..MaxCount in a direct resolver call
MaxZoom == 6           \* zoom levels 0..MaxZoom in a direct resolver call
MaxStitch == 3         \* tile lists of length 0..MaxStitch in a direct stitcher call

---------------------------------------------------------------------------
(* constants.py                                                            *)

None == <<>>

TILE_SIZE == 512

ZoomSizesOffGrid == (0 :> <<512, 256>>) @@ (1 :> <<1000, 500>>) @@ (2 :> <<2048, 1024>>)

ZOOM_SIZES == (0 :> <<512, 256>>) @@ (1 :> <<1024, 512>>) @@ (2 :> <<2048, 1024>>)

OLD_ZOOM_SIZES == (0 :> <<416, 208>>) @@ (1 :> <<832, 416>>) @@ (2 :> <<1664, 832>>)

TILES_AXIS_COUNT ==
    (0 :> <<0, 0>>) @@ (1 :> <<1, 0>>) @@ (2 :> <<3, 1>>) @@
    (3 :> <<7, 3>>) @@ (4 :> <<15, 7>>) @@ (5 :> <<31, 15>>)

TILE_COUNT_TO_SIZE ==
    (<<8, 4>> :> <<4096, 2048>>) @@ (<<7, 4>> :> <<3328, 1664>>) @@
    (<<16, 8>> :> <<8192, 4096>>) @@ (<<13, 7>> :> <<6656, 3328>>) @@
    (<<32, 16>> :> <<16384, 8192>>) @@ (<<26, 13>> :> <<13312, 6656>>)

\* the keys of the entries commented "new" (lines 35, 38, 41)
NewCounts == {<<8, 4>>, <<16, 8>>, <<32, 16>>}

\* dict.get(key): the entry, or None when the key is absent
TableGet(key) ==
    IF key \in DOMAIN TILE_COUNT_TO_SIZE THEN TILE_COUNT_TO_SIZE[key] ELSE None

---------------------------------------------------------------------------
(* What the tile server and the decoder can hand to fetch_tile.            *)

BLACK_TILE_BYTE_SIZE == 1184
DefaultRetries == 3
DarkThreshold == 55

Statuses == {200, 404, 500}
Lengths == {1024, BLACK_TILE_BYTE_SIZE}

\* A decoded image, reduced to what the resolver samples: the number of
\* near-black pixels out of `size`, and whether the bottom rows are black.
Images ==
    { [black |-> 0, size |-> 20, bottom |-> FALSE],
      [black |-> 20, size |-> 20, bottom |-> TRUE] }

\* range(tiles_x + 1) x range(tiles_y + 1), x outer, y inner
GridSeq(z) ==
    LET tx == TILES_AXIS_COUNT[z][1]
        ty == TILES_AXIS_COUNT[z][2]
    IN  [i \in 1..((tx + 1) * (ty + 1)) |-> <<(i - 1) \div (ty + 1), (i - 1) % (ty + 1)>>]

\* the grids of the six zoom levels, and their cells as a set
Grid == [z \in DOMAIN TILES_AXIS_COUNT |-> GridSeq(z)]

CellSet == [z \in DOMAIN TILES_AXIS_COUNT |-> {Grid[z][i] : i \in 1..Len(Grid[z])}]

Cells(z) == CellSet[z]


---------------------------------------------------------------------------
(* fetch_tile (core.py:47-99).  A coroutine is a record                    *)
(*   st       "new"   created, not yet run                                 *)
(*            "get"   awaiting session.get (the request is in flight)      *)
(*            "read"  awaiting response.read() (still in flight)           *)
(*            "sleep" awaiting asyncio.sleep(wait_time)                    *)
(*            "done"  returned                                             *)
(*            "raised" left by an exception (the code has no such exit)    *)
(*   attempt  the loop variable; 0 before the loop                         *)
(*   fails    the number of attempts that ended in the except clause       *)
(*   resp     <<status, Content-Length>> of the response held by the       *)
(*            `async with` block, None outside it                          *)
(*   waits    the delays slept so far, each as a multiple of `backoff`     *)
(*   rank     for a task of a job, its place in the order in which the     *)
(*            job's tasks returned; 0 until then                           *)
(*   ret      the value returned                                           *)

NewTask ==
    [st |-> "new", attempt |-> 0, fails |-> 0, resp |-> None, waits |-> <<>>, rank |-> 0,
     ret |-> None]

\* for attempt in range(1, retries + 1): the loop body starts another attempt,
\* or the loop is exhausted and the function returns None (line 99)
NextAttemptOneMore(t) ==
    IF t.attempt + 1 <= retries + 1
    THEN [t EXCEPT !.st = "get", !.attempt = t.attempt + 1, !.resp = None]
    ELSE [t EXCEPT !.st = "done", !.resp = None, !.ret = None]

NextAttempt(t) ==
    IF t.attempt + 1 <= retries
    THEN [t EXCEPT !.st = "get", !.attempt = t.attempt + 1, !.resp = None]
    ELSE [t EXCEPT !.st = "done", !.resp = None, !.ret = None]

\* lines 76-85: the response's status and declared length are classified
OnResponseNoBlackCheck(t, status, clen) ==
    IF status # 200
    THEN [t EXCEPT !.st = "done", !.resp = <<status, clen>>, !.ret = None]
    ELSE [t EXCEPT !.st = "read", !.resp = <<status, clen>>]

OnResponseRetryStatus(t, status, clen) ==
    IF status # 200
    THEN [t EXCEPT !.st = "sleep", !.fails = t.fails + 1, !.resp = <<status, clen>>]
    ELSE IF clen = BLACK_TILE_BYTE_SIZE
    THEN [t EXCEPT !.st = "done", !.resp = <<status, clen>>, !.ret = None]
    ELSE [t EXCEPT !.st = "read", !.resp = <<status, clen>>]

OnResponse(t, status, clen) ==
    IF status # 200
    THEN [t EXCEPT !.st = "done", !.resp = <<status, clen>>, !.ret = None]
    ELSE IF clen = BLACK_TILE_BYTE_SIZE
    THEN [t EXCEPT !.st = "done", !.resp = <<status, clen>>, !.ret = None]
    ELSE [t EXCEPT !.st = "read", !.resp = <<status, clen>>]

\* lines 91-97: the except clause (`fails` counts how often it ran); the
\* response is released by the `async with`, then the coroutine sleeps
\* before the next attempt, or leaves the loop after the last one
\* line 93: wait_time = backoff * (2 ** (attempt - 1)), as a multiple of
\* backoff (a binary float times a power of two is exact)
wait_time_flat(attempt) == 1

wait_time(attempt) == 2 ^ (attempt - 1)

OnErrorRaisesLast(t) ==
    IF t.attempt < retries
    THEN [t EXCEPT !.st = "sleep", !.fails = t.fails + 1, !.resp = None,
                   !.waits = Append(t.waits, wait_time(t.attempt))]
    ELSE [t EXCEPT !.st = "raised", !.fails = t.fails + 1, !.resp = None]

OnError(t) ==
    IF t.attempt < retries
    THEN [t EXCEPT !.st = "sleep", !.fails = t.fails + 1, !.resp = None,
                   !.waits = Append(t.waits, wait_time(t.attempt))]
    ELSE [t EXCEPT !.st = "done", !.fails = t.fails + 1, !.resp = None, !.ret = None]

\* A coroutine that has returned leaves its task nothing but the result,
\* which is all gather reads.  The last frame of a call made directly (job
\* 0) is kept, for inspection.
Settle(k, t) ==
    IF t.st = "done" /\ k[1] # 0
    THEN [st |-> "done", attempt |-> 0, fails |-> 0, resp |-> None, waits |-> <<>>,
          rank |-> 1 + Cardinality({q \in DOMAIN tile : q[1] = k[1] /\ tile[q].st = "done"}),
          ret |-> t.ret]
    ELSE t

\* asyncio runs ready tasks first in, first out: the tasks a job creates
\* run only after every job fetch_panos created has run its first step
AllStarted == \A q \in DOMAIN job : job[q].pc # "new"

TileUnchanged ==
    UNCHANGED <<zoom_level, panoids, retries, max_pano, max_tile, sem_pano,
                batch, job, files, fake, dim, stitch>>

\* the coroutine's first step: line 72, then the first pass of the loop
FetchStart(k) ==
    /\ k \in DOMAIN tile
    /\ tile[k].st = "new"
    /\ AllStarted
    /\ tile' = [tile EXCEPT ![k] = Settle(k, NextAttempt(tile[k]))]
    /\ TileUnchanged

\* session.get returns a response (lines 76-85)
GetResponse(k, status, clen) ==
    /\ k \in DOMAIN tile
    /\ tile[k].st = "get"
    /\ tile' = [tile EXCEPT ![k] = Settle(k, OnResponse(tile[k], status, clen))]
    /\ TileUnchanged

\* session.get raises: timeout, connection error (lines 76, 91-97)
GetFail(k) ==
    /\ k \in DOMAIN tile
    /\ tile[k].st = "get"
    /\ tile' = [tile EXCEPT ![k] = Settle(k, OnError(tile[k]))]
    /\ TileUnchanged

\* response.read() returns and Image.open decodes the body (lines 87-89)
ReadDone(k, img) ==
    /\ k \in DOMAIN tile
    /\ tile[k].st = "read"
    /\ tile' = [tile EXCEPT ![k] =
                  Settle(k, [@ EXCEPT !.st = "done", !.ret = <<k[2][1], k[2][2], img>>])]
    /\ TileUnchanged

\* response.read() raises, or Image.open raises on the body (lines 87-88, 91-97)
ReadFail(k) ==
    /\ k \in DOMAIN tile
    /\ tile[k].st = "read"
    /\ tile' = [tile EXCEPT ![k] = Settle(k, OnError(tile[k]))]
    /\ TileUnchanged

\* asyncio.sleep returns: the next pass of the loop (lines 95, 74-76)
SleepDone(k) ==
    /\ k \in DOMAIN tile
    /\ tile[k].st = "sleep"
    /\ tile' = [tile EXCEPT ![k] = Settle(k, NextAttempt(tile[k]))]
    /\ TileUnchanged

\* every key a fetch_tile coroutine can have: job 0 is a direct call
TaskKeys ==
    {<<p, c>> : p \in 0..(MaxPanos + 1), c \in Cells(2)}

FetchNext ==
    \/ \E k \in TaskKeys : FetchStart(k)
    \/ \E k \in TaskKeys, status \in Statuses, clen \in Lengths : GetResponse(k, status, clen)
    \/ \E k \in TaskKeys : GetFail(k)
    \/ \E k \in TaskKeys, img \in Images : ReadDone(k, img)
    \/ \E k \in TaskKeys : ReadFail(k)
    \/ \E k \in TaskKeys : SleepDone(k)

\* no batch is running: fetch_panos has not been called
NoBatch == [pc |-> "none", session |-> "none", executor |-> "none", ret |-> None]

NoDim == [pc |-> "none", tiles |-> <<>>, x_tiles_count |-> 0, y_tiles_count |-> 0,
          sampled |-> FALSE, error |-> "", ret |-> None]

NoStitch == [pc |-> "none", tiles |-> <<>>, width |-> 0, height |-> 0, ret |-> None]

\* a direct call fetch_tile(session, panoid, x, y, zoom_level, retries=r),
\* as the tests make it (test_core.py:145)
InitTile ==
    /\ zoom_level \in 0..2
    /\ retries \in 0..MaxRetries
    /\ panoids = <<>>
    /\ max_pano = 1
    /\ max_tile = 1
    /\ sem_pano = 1
    /\ batch = NoBatch
    /\ job = <<>>
    /\ \E c \in Cells(zoom_level) : tile = (<<0, c>> :> NewTask)
    /\ files = {}
    /\ fake = None
    /\ dim = NoDim
    /\ stitch = NoStitch

SpecTile == InitTile /\ [][FetchNext]_vars

---------------------------------------------------------------------------
(* The tests' fake_fetch_tile (test_core.py:156-157, 264-267): a coroutine *)
(* that returns at once, None for the identifiers in `bad`, for the cells  *)
(* outside the panorama's own nx x ny extent and for the cells of the      *)
(* columns in `lost` (fetches that failed), a tile elsewhere.              *)

LightImage == [black |-> 0, size |-> 20, bottom |-> FALSE]

fake_fetch_tile(panoid, c) ==
    IF panoid \in fake.bad \/ c[1] >= fake.nx \/ c[2] >= fake.ny \/ c[1] \in fake.lost
    THEN None
    ELSE <<c[1], c[2], LightImage>>

---------------------------------------------------------------------------
(* determine_dimensions (core.py:101-141)                                  *)

\* The images a pixel test is sampled on: no near-black pixel, all of them
\* (with black bottom rows), exactly 55 in 100, and a 512 x 512 tile one
\* pixel short of 55 in 100.
SampleImages ==
    Images \cup { [black |-> 11, size |-> 20, bottom |-> FALSE],
                  [black |-> 144179, size |-> 262144, bottom |-> TRUE] }

\* numpy computes the percentage in IEEE-754 binary64: a float is
\* [m |-> the 53 bits of the significand, most significant first,
\*  x |-> the exponent of its first bit]; 0.0 has no bit set.
SignificandBits == 53

FloatZero == [m |-> [i \in 1..SignificandBits |-> 0], x |-> -1075]

\* bits * k + carry, on a sequence of bits, from the last bit (index i) up
RECURSIVE MulAdd(_, _, _, _, _)
MulAdd(bits, k, i, carry, acc) ==
    IF i = 0
    THEN IF carry = 0 THEN acc
         ELSE MulAdd(bits, k, 0, carry \div 2, <<carry % 2>> \o acc)
    ELSE MulAdd(bits, k, i - 1, (bits[i] * k + carry) \div 2,
                <<(bits[i] * k + carry) % 2>> \o acc)

\* round to nearest, ties to even: `bits` starts with a 1 of weight 2^x
RoundBits(bits, x) ==
    LET n == SignificandBits
        padded == bits \o [i \in 1..(n + 1) |-> 0]
        kept == SubSeq(padded, 1, n)
        guard == padded[n + 1]
        sticky == \E i \in (n + 2)..Len(bits) : bits[i] = 1
        up == guard = 1 /\ (sticky \/ kept[n] = 1)
        inc == MulAdd(kept, 1, n, 1, <<>>)
    IN  IF ~up THEN [m |-> kept, x |-> x]
        ELSE IF Len(inc) > n THEN [m |-> SubSeq(inc, 1, n), x |-> x + 1]
        ELSE [m |-> inc, x |-> x]

\* the binary digits of a positive integer
RECURSIVE IntBits(_, _)
IntBits(n, acc) == IF n = 0 THEN acc ELSE IntBits(n \div 2, <<n % 2>> \o acc)

FloatOfInt(n) ==
    IF n = 0 THEN FloatZero ELSE RoundBits(IntBits(n, <<>>), Len(IntBits(n, <<>>)) - 1)

\* a / b for 0 < a: shift a until the quotient's first bit is found ...
RECURSIVE LeadShift(_, _, _)
LeadShift(a, b, e) == IF a >= b THEN <<a, e>> ELSE LeadShift(2 * a, b, e + 1)

\* ... then n more bits of r / b by long division, and a last bit that is
\* set when a remainder is left
RECURSIVE Quotient(_, _, _, _)
Quotient(r, b, n, acc) ==
    IF n = 0 THEN Append(acc, IF r = 0 THEN 0 ELSE 1)
    ELSE IF 2 * r >= b THEN Quotient(2 * r - b, b, n - 1, Append(acc, 1))
    ELSE Quotient(2 * r, b, n - 1, Append(acc, 0))

\* integer / integer (true division), 0 <= a <= b
FloatDiv(a, b) ==
    IF a = 0 THEN FloatZero
    ELSE RoundBits(Quotient(LeadShift(a, b, 0)[1] - b, b, SignificandBits, <<1>>),
                   -LeadShift(a, b, 0)[2])

\* float * small positive integer
FloatMulInt(f, k) ==
    IF f = FloatZero THEN FloatZero
    ELSE RoundBits(MulAdd(f.m, k, SignificandBits, 0, <<>>),
                   f.x + Len(MulAdd(f.m, k, SignificandBits, 0, <<>>)) - SignificandBits)

\* f > g for non-negative floats
FloatGreater(f, g) ==
    \/ f.x > g.x
    \/ /\ f.x = g.x
       /\ \E i \in 1..SignificandBits :
             /\ f.m[i] > g.m[i]
             /\ \A h \in 1..(i - 1) : f.m[h] = g.m[h]

\* my_utils.py:73-91: np.sum(black_pixels) / black_pixels.size * 100
black_percentage(img) == FloatMulInt(FloatDiv(img.black, img.size), 100)

percent_black == [img \in SampleImages |-> black_percentage(img)]

\* core.py:133 with exact arithmetic in place of the float
black_percentage_exceeds_exactly(img) == img.black * 100 > DarkThreshold * img.size

\* core.py:133: black_perc > 55
black_percentage_exceeds(img) == FloatGreater(percent_black[img], FloatOfInt(DarkThreshold))

\* my_utils.py:56-70
has_black_bottom(img) == img.bottom

\* does this zoom level sample a pixel test in the executor (lines 129, 135)
SamplesPixels(zoom) == zoom = 0 \/ (0 < zoom /\ zoom <= 2)

\* the index (from 1) of the tile handed to the executor: tiles[0] (line 131)
\* at zoom 0, tiles[1] (line 137) at zoom 1-2
RefIndexFirst(zoom) == 1

RefIndex(zoom) == IF zoom = 0 THEN 1 ELSE 2

\* the value the executor computes on the reference tile's image
PixelTest(zoom, img) ==
    IF zoom = 0 THEN black_percentage_exceeds(img) ELSE has_black_bottom(img)

\* lines 133, 139
SizeFromPixelsSwapped(zoom, old) == IF old THEN ZOOM_SIZES[zoom] ELSE OLD_ZOOM_SIZES[zoom]

SizeFromPixels(zoom, old) == IF old THEN OLD_ZOOM_SIZES[zoom] ELSE ZOOM_SIZES[zoom]

\* line 141
SizeFromCountsOrGrid(x_tiles_count, y_tiles_count) ==
    IF <<x_tiles_count, y_tiles_count>> \in DOMAIN TILE_COUNT_TO_SIZE
    THEN TILE_COUNT_TO_SIZE[<<x_tiles_count, y_tiles_count>>]
    ELSE <<x_tiles_count * TILE_SIZE, y_tiles_count * TILE_SIZE>>

SizeFromCounts(x_tiles_count, y_tiles_count) ==
    TableGet(<<x_tiles_count, y_tiles_count>>)

\* determine_dimensions called on its own, as test_core.py:349-366 does.
\* The record `dim` is the call:
\*   pc       "call", "executor" (awaiting run_in_executor), "done", "raised"
\*   tiles, x_tiles_count, y_tiles_count   the arguments
\*   sampled  whether a pixel test was handed to the executor
\*   error    the exception raised
\*   ret      the value returned
DimUnchanged ==
    UNCHANGED <<zoom_level, panoids, retries, max_pano, max_tile, sem_pano,
                batch, job, tile, files, fake, stitch>>

\* lines 129-141 up to the first await, or to the return when there is none
DimCall ==
    /\ dim.pc = "call"
    /\ IF SamplesPixels(zoom_level)
       THEN IF RefIndex(zoom_level) > Len(dim.tiles)
            THEN dim' = [dim EXCEPT !.pc = "raised", !.error = "IndexError"]
            ELSE dim' = [dim EXCEPT !.pc = "executor", !.sampled = TRUE]
       ELSE dim' = [dim EXCEPT !.pc = "done",
                               !.ret = SizeFromCounts(dim.x_tiles_count, dim.y_tiles_count)]
    /\ DimUnchanged

\* the executor returns the pixel test's value (lines 133, 139)
DimExecutorReturn ==
    /\ dim.pc = "executor"
    /\ LET img == dim.tiles[RefIndex(zoom_level)][3]
       IN  dim' = [dim EXCEPT !.pc = "done",
                              !.ret = SizeFromPixels(zoom_level, PixelTest(zoom_level, img))]
    /\ DimUnchanged

\* the executor's future raises
DimExecutorFail ==
    /\ dim.pc = "executor"
    /\ dim' = [dim EXCEPT !.pc = "raised", !.error = "BrokenProcessPool"]
    /\ DimUnchanged

DimNext == DimCall \/ DimExecutorReturn \/ DimExecutorFail

\* the tile lists a direct call is given: up to two tiles of one column
DimTileLists ==
    {<<>>}
    \cup {<<<<0, 0, a>>>> : a \in SampleImages}
    \cup {<<<<0, 0, a>>, <<0, 1, b>>>> : a \in SampleImages, b \in SampleImages}

InitDim ==
    /\ zoom_level \in 0..MaxZoom
    /\ retries = DefaultRetries
    /\ panoids = <<>>
    /\ max_pano = 1
    /\ max_tile = 1
    /\ sem_pano = 1
    /\ batch = NoBatch
    /\ job = <<>>
    /\ tile = <<>>
    /\ files = {}
    /\ fake = None
    /\ stitch = NoStitch
    /\ \E t \in DimTileLists, x \in 0..MaxCount, y \in 0..MaxCount :
          dim = [pc |-> "call", tiles |-> t, x_tiles_count |-> x, y_tiles_count |-> y,
                 sampled |-> FALSE, error |-> "", ret |-> None]

SpecDim == InitDim /\ [][DimNext]_vars

---------------------------------------------------------------------------
(* stitch_tiles (core.py:144-160).  A canvas is a record                   *)
(*   size    <<width, height>>                                             *)
(*   px      the image shown at each pixel offset something was pasted at; *)
(*           an offset that is not in its domain is blank                  *)
(*   closed  the coordinates of the tiles closed so far, in order          *)

\* line 158: the pixel offset a tile is pasted at
OffsetTransposed(t) == <<t[2] * TILE_SIZE, t[1] * TILE_SIZE>>

Offset(t) == <<t[1] * TILE_SIZE, t[2] * TILE_SIZE>>

\* the largest element of a set of integers
Max(S) == CHOOSE m \in S : \A n \in S : n <= m

\* lines 156-160: a new canvas of (width, height), then for each tile in the
\* order of the list, paste it unscaled at its offset, over whatever is
\* there, and close it.  An offset shows the last tile pasted at it; a tile
\* whose offset lies outside the canvas draws nothing.
stitch_tiles(tiles, width, height) ==
    [size |-> <<width, height>>,
     px |-> [o \in {Offset(tiles[i]) : i \in {h \in 1..Len(tiles) :
                       Offset(tiles[h])[1] < width /\ Offset(tiles[h])[2] < height}} |->
               tiles[Max({i \in 1..Len(tiles) : Offset(tiles[i]) = o})][3]],
     closed |-> [i \in 1..Len(tiles) |-> <<tiles[i][1], tiles[i][2]>>]]

\* stitch_tiles called on its own.  The record `stitch` is the call:
\*   pc     "call", "done"
\*   tiles, width, height   the arguments
\*   ret    the canvas returned
StitchCall ==
    /\ stitch.pc = "call"
    /\ stitch' = [stitch EXCEPT !.pc = "done",
                                !.ret = stitch_tiles(stitch.tiles, stitch.width, stitch.height)]
    /\ UNCHANGED <<zoom_level, panoids, retries, max_pano, max_tile, sem_pano,
                   batch, job, tile, files, fake, dim>>

\* the tile lists a direct call is given: up to MaxStitch tiles at distinct
\* cells of a 2 x 2 grid, in any order
StitchCells == {<<x, y>> : x \in 0..1, y \in 0..1}

StitchTileLists ==
    {l \in UNION {[1..n -> {<<c[1], c[2], a>> : c \in StitchCells, a \in Images}] :
                     n \in 0..MaxStitch} :
        \A i \in 1..Len(l), h \in 1..Len(l) :
            (l[i][1] = l[h][1] /\ l[i][2] = l[h][2]) => i = h}

\* the sizes the resolver has for a grid of at most 2 x 2 cells
StitchSizes == {ZOOM_SIZES[0], OLD_ZOOM_SIZES[0], ZOOM_SIZES[1], OLD_ZOOM_SIZES[1]}

InitStitch ==
    /\ zoom_level \in {1}
    /\ retries = DefaultRetries
    /\ panoids = <<>>
    /\ max_pano = 1
    /\ max_tile = 1
    /\ sem_pano = 1
    /\ batch = NoBatch
    /\ job = <<>>
    /\ tile = <<>>
    /\ files = {}
    /\ fake = None
    /\ dim = NoDim
    /\ \E t \in StitchTileLists, size \in StitchSizes :
          stitch = [pc |-> "call", tiles |-> t, width |-> size[1], height |-> size[2],
                    ret |-> None]

SpecStitch == InitStitch /\ [][StitchCall]_vars

\* what save_img returns: the formatted size of the written file
FILE_SIZE == "size"
OUTPUT_DIR == "output_dir"

---------------------------------------------------------------------------
(* process_panoid (core.py:163-247).  A coroutine is a record              *)
(*   pc     "new"    created by fetch_panos, not yet run                   *)
(*          "wait"   blocked in sem_pano.acquire()                         *)
(*          "gather" awaiting asyncio.gather over its fetch_tile tasks     *)
(*          "dims"   awaiting run_in_executor inside determine_dimensions  *)
(*          "done"   returned                                              *)
(*   tiles  the list of surviving tiles (line 211)                         *)
(*   calls  the collaborators invoked so far, in order                     *)
(*   closed the coordinates of the tiles stitch_tiles has closed           *)
(*   order  the grid cells in the order in which their fetches returned    *)
(*   diag   the status line printed: "OK", "FAIL" or "PROCESSING ERROR"    *)
(*   error  the exception the except clause caught                         *)
(*   ret    the value returned                                             *)

NewJob == [pc |-> "new", tiles |-> <<>>, calls |-> <<>>, closed |-> <<>>, order |-> <<>>,
           diag |-> "", error |-> "", ret |-> None]

JobsAtLeastOne == 1..(IF panoids = <<>> THEN 1 ELSE Len(panoids))

Jobs == 1..Len(panoids)

\* the fetch_tile tasks of job p; the patched-in fake awaits nothing, its
\* coroutines return as soon as gather runs them
JobTasks(p) == IF fake = None THEN {<<p, c>> : c \in Cells(zoom_level)} ELSE {}

\* asyncio.Semaphore.locked(): no permit left, or earlier waiters queued
Locked == sem_pano = 0 \/ \E q \in DOMAIN job : job[q].pc = "wait"

\* the except clause (lines 245-247), after `async with` has released the
\* semaphore, whose value inside the block was s
JobExceptNoRelease(p, j, error, s) ==
    /\ job' = [job EXCEPT ![p] = [j EXCEPT !.pc = "done", !.diag = "PROCESSING ERROR",
                                           !.error = error, !.ret = None]]
    /\ sem_pano' = s
    /\ UNCHANGED <<files, batch>>

JobExceptPropagates(p, j, error, s) ==
    /\ job' = [job EXCEPT ![p] = [j EXCEPT !.pc = "done", !.diag = "",
                                           !.error = error, !.ret = None]]
    /\ sem_pano' = s + 1
    /\ batch' = [batch EXCEPT !.pc = "raised", !.executor = "shutdown",
                              !.session = "closed"]
    /\ UNCHANGED files

JobExcept(p, j, error, s) ==
    /\ job' = [job EXCEPT ![p] = [j EXCEPT !.pc = "done", !.diag = "PROCESSING ERROR",
                                           !.error = error, !.ret = None]]
    /\ sem_pano' = s + 1
    /\ UNCHANGED <<files, batch>>

\* lines 213-215: no tile survived
NoTilesFallsThrough(p, j, s) ==
    /\ job' = [job EXCEPT ![p] = [j EXCEPT !.pc = "done", !.diag = "PROCESSING ERROR",
                                           !.calls = Append(j.calls, "dims"),
                                           !.error = "IndexError", !.ret = None]]
    /\ sem_pano' = s + 1
    /\ UNCHANGED <<files, batch>>

NoTilesNoRelease(p, j, s) ==
    /\ job' = [job EXCEPT ![p] = [j EXCEPT !.pc = "done", !.diag = "FAIL", !.ret = None]]
    /\ sem_pano' = s
    /\ UNCHANGED <<files, batch>>

NoTiles(p, j, s) ==
    /\ job' = [job EXCEPT ![p] = [j EXCEPT !.pc = "done", !.diag = "FAIL", !.ret = None]]
    /\ sem_pano' = s + 1
    /\ UNCHANGED <<files, batch>>

\* lines 218-220: the number of distinct x (axis 1) or y (axis 2) values
CountTiles(tiles, axis) == Len(tiles)

CountDistinct(tiles, axis) == Cardinality({tiles[i][axis] : i \in 1..Len(tiles)})

\* lines 226-243: stitch, save, report and return, with no await in between.
\* fault is what the environment does to the two calls that can raise.
StitchSaveBeforeStitch(p, j, size, fault, s) ==
    IF fault = "none"
    THEN /\ job' = [job EXCEPT ![p] =
                [j EXCEPT !.pc = "done", !.diag = "OK",
                          !.calls = j.calls \o <<"stitch", "save">>,
                          !.ret = <<panoids[p], zoom_level, size, <<0, 0>>, FILE_SIZE>>]]
         /\ files' = files \cup {panoids[p]}
         /\ sem_pano' = s + 1
         /\ UNCHANGED batch
    ELSE /\ job' = [job EXCEPT ![p] = [j EXCEPT !.pc = "done", !.diag = "PROCESSING ERROR",
                                                !.calls = j.calls \o <<"save", "stitch">>,
                                                !.error = "OSError", !.ret = None]]
         /\ files' = files \cup {panoids[p]}
         /\ sem_pano' = s + 1
         /\ UNCHANGED batch

StitchSaveSuspends(p, j, size, fault, s) ==
    /\ job' = [job EXCEPT ![p] = [j EXCEPT !.pc = "dims",
                                           !.calls = j.calls \o <<"stitch", "save">>]]
    /\ files' = files \cup {panoids[p]}
    /\ sem_pano' = s
    /\ UNCHANGED batch

StitchSave(p, j, size, fault, s) ==
    LET full_img == stitch_tiles(j.tiles, size[1], size[2])
        x_tiles_count == CountDistinct(j.tiles, 1)
        y_tiles_count == CountDistinct(j.tiles, 2)
    IN  CASE fault = "stitch" ->
               JobExcept(p, [j EXCEPT !.calls = Append(j.calls, "stitch")], "OSError", s)
          [] fault = "save" ->
               JobExcept(p, [j EXCEPT !.calls = j.calls \o <<"stitch", "save">>,
                                      !.closed = full_img.closed], "OSError", s)
          [] OTHER ->
               /\ job' = [job EXCEPT ![p] =
                     [j EXCEPT !.pc = "done", !.diag = "OK",
                               !.calls = j.calls \o <<"stitch", "save">>,
                               !.closed = full_img.closed,
                               !.ret = <<panoids[p], zoom_level, full_img.size,
                                         <<x_tiles_count, y_tiles_count>>, FILE_SIZE>>]]
               /\ files' = files \cup {panoids[p]}
               /\ sem_pano' = s + 1
               /\ UNCHANGED batch

Faults == {"none", "stitch", "save"}

\* line 223: `w, h = ...` raises TypeError on None, before line 226
UnpackOrGuess(p, j, size, fault, s) ==
    IF size = None
    THEN StitchSave(p, j, ZOOM_SIZES[2], fault, s)
    ELSE StitchSave(p, j, size, fault, s)

Unpack(p, j, size, fault, s) ==
    IF size = None
    THEN JobExcept(p, j, "TypeError", s)
    ELSE StitchSave(p, j, size, fault, s)

\* lines 203-211, run with the semaphore just acquired (its value is s)
BodyKeyErrorEscapes(p, s) ==
    IF zoom_level \notin DOMAIN TILES_AXIS_COUNT
    THEN /\ JobExceptPropagates(p, job[p], "KeyError", s)
         /\ UNCHANGED tile
    ELSE /\ job' = [job EXCEPT ![p] = [@ EXCEPT !.pc = "gather", !.calls = <<"gather">>]]
         /\ sem_pano' = s
         /\ tile' = [k \in DOMAIN tile \cup JobTasks(p) |->
                       IF k \in DOMAIN tile THEN tile[k] ELSE NewTask]
         /\ UNCHANGED <<files, batch>>

Body(p, s) ==
    IF zoom_level \notin DOMAIN TILES_AXIS_COUNT
    THEN /\ JobExcept(p, job[p], "KeyError", s)
         /\ UNCHANGED tile
    ELSE /\ job' = [job EXCEPT ![p] = [@ EXCEPT !.pc = "gather", !.calls = <<"gather">>]]
         /\ sem_pano' = s
         /\ tile' = [k \in DOMAIN tile \cup JobTasks(p) |->
                       IF k \in DOMAIN tile THEN tile[k] ELSE NewTask]
         /\ UNCHANGED <<files, batch>>

JobUnchanged ==
    UNCHANGED <<zoom_level, panoids, retries, max_pano, max_tile, fake, dim, stitch>>

\* the coroutine's first step: `async with sem_pano` (line 200) either
\* acquires at once and runs on to the gather, or blocks.  asyncio runs the
\* tasks gather created in the order of the list.
JobStart(p) ==
    /\ batch.pc = "gather"
    /\ p \in DOMAIN job
    /\ job[p].pc = "new"
    /\ \A q \in 1..(p - 1) : job[q].pc # "new"
    /\ IF Locked
       THEN /\ job' = [job EXCEPT ![p] = [@ EXCEPT !.pc = "wait"]]
            /\ UNCHANGED <<sem_pano, tile, files, batch>>
       ELSE Body(p, sem_pano - 1)
    /\ JobUnchanged

\* a release woke the first waiter: it takes the permit and runs on
JobAcquire(p) ==
    /\ p \in DOMAIN job
    /\ job[p].pc = "wait"
    /\ \A q \in 1..(p - 1) : job[q].pc # "wait"
    /\ sem_pano > 0
    /\ Body(p, sem_pano - 1)
    /\ JobUnchanged

\* line 211: gather's future is done when every task it was given is
GatherAnyDone(p) == \E k \in JobTasks(p) : tile[k].st = "done"

GatherDone(p) == \A k \in JobTasks(p) : tile[k].st = "done"

\* the cells of job p whose fetch has returned, in the order in which they
\* returned (all of them once the gather is done); the fakes await nothing
\* and return in the order of the task list
CompletionOrder(p) ==
    IF fake = None
    THEN [i \in 1..Cardinality({c \in Cells(zoom_level) : tile[<<p, c>>].st = "done"}) |->
             CHOOSE c \in Cells(zoom_level) : tile[<<p, c>>].rank = i]
    ELSE Grid[zoom_level]

\* line 211: what gather returns, in the order of the task list
GatherResultsAsCompleted(p) ==
    [i \in 1..Len(Grid[zoom_level]) |->
        IF fake = None THEN tile[<<p, CompletionOrder(p)[i]>>].ret
        ELSE fake_fetch_tile(panoids[p], Grid[zoom_level][i])]

GatherResults(p) ==
    [i \in 1..Len(Grid[zoom_level]) |->
        IF fake = None THEN tile[<<p, Grid[zoom_level][i]>>].ret
        ELSE fake_fetch_tile(panoids[p], Grid[zoom_level][i])]

\* line 211: the results that are not None
Surviving(results) == SelectSeq(results, LAMBDA r : r # None)

\* lines 213-243 for the surviving list `tiles`, up to the first await of
\* determine_dimensions, or to the end when it has none (zoom >= 3)
AfterGather(p, tiles, fault) ==
    LET j == [job[p] EXCEPT !.tiles = tiles, !.order = CompletionOrder(p)]
        jd == [j EXCEPT !.calls = Append(job[p].calls, "dims")]
    IN  IF tiles = <<>>
        THEN NoTiles(p, j, sem_pano)
        ELSE IF SamplesPixels(zoom_level)
        THEN IF RefIndex(zoom_level) > Len(tiles)
             THEN JobExcept(p, jd, "IndexError", sem_pano)
             ELSE /\ job' = [job EXCEPT ![p] = [jd EXCEPT !.pc = "dims"]]
                  /\ UNCHANGED <<sem_pano, files, batch>>
        ELSE Unpack(p, jd, SizeFromCounts(CountDistinct(tiles, 1), CountDistinct(tiles, 2)),
                    fault, sem_pano)

\* every fetch_tile task has returned and gather resumes the job.  The
\* fakes await nothing: their gathers return in the order they were made.
GatherReturn(p, fault) ==
    /\ p \in DOMAIN job
    /\ job[p].pc = "gather"
    /\ AllStarted
    /\ fake # None => \A q \in 1..(p - 1) : job[q].pc # "gather"
    /\ GatherDone(p)
    /\ AfterGather(p, Surviving(GatherResults(p)), fault)
    /\ tile' = [k \in DOMAIN tile \ JobTasks(p) |-> tile[k]]
    /\ JobUnchanged

\* the executor returns the pixel test's value: lines 133/139, then 223-243
ExecutorReturn(p, fault) ==
    /\ p \in DOMAIN job
    /\ job[p].pc = "dims"
    /\ LET j == job[p]
           img == j.tiles[RefIndex(zoom_level)][3]
           size == SizeFromPixels(zoom_level, PixelTest(zoom_level, img))
       IN  StitchSave(p, j, size, fault, sem_pano)
    /\ UNCHANGED tile
    /\ JobUnchanged

\* the executor's future raises (a worker died, the image cannot be sent)
ExecutorFail(p) ==
    /\ p \in DOMAIN job
    /\ job[p].pc = "dims"
    /\ JobExcept(p, job[p], "BrokenProcessPool", sem_pano)
    /\ UNCHANGED tile
    /\ JobUnchanged

---------------------------------------------------------------------------
(* fetch_panos (core.py:249-289)                                           *)

\* line 287
success_panos_all(tasks_res) == tasks_res

success_panos(tasks_res) == SelectSeq(tasks_res, LAMBDA pano : pano # None)

\* lines 280-285: the session and the pool are opened, one process_panoid
\* task per identifier is handed to gather
BatchStart ==
    /\ batch.pc = "call"
    /\ batch' = [batch EXCEPT !.pc = "gather", !.session = "open", !.executor = "open"]
    /\ job' = [p \in Jobs |-> NewJob]
    /\ UNCHANGED <<zoom_level, panoids, retries, max_pano, max_tile, sem_pano,
                   tile, files, fake, dim, stitch>>

\* lines 285-289: gather returns once every job has; the pool is shut down,
\* the tuple is built and the session closed on the way out
BatchReturnFirstDone ==
    /\ batch.pc = "gather"
    /\ \E p \in DOMAIN job : job[p].pc = "done"
    /\ LET tasks_res == [p \in Jobs |-> job[p].ret]
       IN  batch' = [batch EXCEPT !.pc = "done", !.executor = "shutdown",
                         !.session = "closed",
                         !.ret = <<Len(panoids), Len(success_panos(tasks_res)), OUTPUT_DIR>>]
    /\ UNCHANGED <<zoom_level, panoids, retries, max_pano, max_tile, sem_pano,
                   job, tile, files, fake, dim, stitch>>

BatchReturn ==
    /\ batch.pc = "gather"
    /\ \A p \in DOMAIN job : job[p].pc = "done"
    /\ LET tasks_res == [p \in Jobs |-> job[p].ret]
       IN  batch' = [batch EXCEPT !.pc = "done", !.executor = "shutdown",
                         !.session = "closed",
                         !.ret = <<Len(panoids), Len(success_panos(tasks_res)), OUTPUT_DIR>>]
    /\ UNCHANGED <<zoom_level, panoids, retries, max_pano, max_tile, sem_pano,
                   job, tile, files, fake, dim, stitch>>

Next ==
    \/ BatchStart
    \/ \E p \in 1..(MaxPanos + 1) : JobStart(p)
    \/ \E p \in 1..(MaxPanos + 1) : JobAcquire(p)
    \/ \E k \in TaskKeys : FetchStart(k)
    \/ \E k \in TaskKeys, status \in Statuses, clen \in Lengths : GetResponse(k, status, clen)
    \/ \E k \in TaskKeys : GetFail(k)
    \/ \E k \in TaskKeys, img \in Images : ReadDone(k, img)
    \/ \E k \in TaskKeys : ReadFail(k)
    \/ \E k \in TaskKeys : SleepDone(k)
    \/ \E p \in 1..(MaxPanos + 1), fault \in Faults : GatherReturn(p, fault)
    \/ \E p \in 1..(MaxPanos + 1), fault \in Faults : ExecutorReturn(p, fault)
    \/ \E p \in 1..(MaxPanos + 1) : ExecutorFail(p)
    \/ BatchReturn

\* identifiers are opaque: a list is given up to renaming, its first
\* identifier 1, each new one the next number
IdLists ==
    {l \in UNION {[1..n -> 1..MaxPanos] : n \in 0..MaxPanos} :
        \A i \in 1..Len(l) : l[i] <= 1 + Max({0} \cup {l[h] : h \in 1..(i - 1)})}

\* the extents a faked panorama can have at a zoom level: the requested
\* grid, every table entry that fits in it, and a single tile
FakeExtents(z) ==
    LET nx == TILES_AXIS_COUNT[z][1] + 1
        ny == TILES_AXIS_COUNT[z][2] + 1
    IN  {<<nx, ny>>, <<1, 1>>}
        \cup {e \in DOMAIN TILE_COUNT_TO_SIZE : e[1] <= nx /\ e[2] <= ny}

\* the first zoom level TILES_AXIS_COUNT has no entry for
InvalidZoom == Max(DOMAIN TILES_AXIS_COUNT) + 1

Init ==
    /\ panoids \in IdLists
    /\ \/ /\ fake = None
          /\ zoom_level \in {0, 1, InvalidZoom}
          /\ zoom_level \in DOMAIN TILES_AXIS_COUNT
                => Len(panoids) * Cardinality(Cells(zoom_level)) <= MaxCells
       \/ /\ zoom_level \in {3}
          /\ \E e \in FakeExtents(zoom_level), bad \in SUBSET {panoids[i] : i \in 1..Len(panoids)} :
                /\ Cardinality(bad) <= 1
                /\ fake = [nx |-> e[1], ny |-> e[2], bad |-> bad, lost |-> {}]
    /\ retries = DefaultRetries
    /\ max_pano \in 1..MaxPanoConc
    /\ max_tile = MaxTileConc
    /\ sem_pano = max_pano
    /\ batch = [pc |-> "call", session |-> "none", executor |-> "none", ret |-> None]
    /\ job = <<>>
    /\ tile = <<>>
    /\ files = {}
    /\ dim = NoDim
    /\ stitch = NoStitch

Spec == Init /\ [][Next]_vars

\* a batch of one or two panoramas on a single permit, at every zoom level:
\* with the fake fetch as test_different_zoom_levels patches it in (zoom
\* 0-5), over each extent and over the full grid less one column, and with
\* fetch_tile itself where the grid is small (zoom 0-1)
InitJob ==
    /\ panoids \in {<<1>>, <<1, 2>>}
    /\ \/ /\ fake = None
          /\ zoom_level \in {0, 1}
          /\ Len(panoids) * Cardinality(Cells(zoom_level)) <= MaxCells
       \/ /\ zoom_level \in DOMAIN TILES_AXIS_COUNT
          /\ \/ \E e \in FakeExtents(zoom_level) :
                   fake = [nx |-> e[1], ny |-> e[2], bad |-> {}, lost |-> {}]
             \/ \E x \in 0..TILES_AXIS_COUNT[zoom_level][1] :
                   fake = [nx |-> TILES_AXIS_COUNT[zoom_level][1] + 1,
                           ny |-> TILES_AXIS_COUNT[zoom_level][2] + 1,
                           bad |-> {}, lost |-> {x}]
    /\ retries = DefaultRetries
    /\ max_pano = 1
    /\ max_tile = MaxTileConc
    /\ sem_pano = max_pano
    /\ batch = [pc |-> "call", session |-> "none", executor |-> "none", ret |-> None]
    /\ job = <<>>
    /\ tile = <<>>
    /\ files = {}
    /\ dim = NoDim
    /\ stitch = NoStitch

SpecJob == InitJob /\ [][Next]_vars

---------------------------------------------------------------------------
(* Properties of fetch_tile, checked on a direct call (SpecTile).          *)

\* C1: with attempt limit `retries`, a call never makes more than `retries`
\* HTTP attempts; a call that returned a tile failed fewer than `retries`
\* times and returned on the attempt right after its last failure; an
\* attempt that gets a good response and decodes it returns the tile; a call
\* that has failed `retries` times has returned None; and a call that has
\* returned makes no further attempt.
C1_Inv ==
    \A k \in DOMAIN tile :
        LET t == tile[k]
        IN  /\ t.attempt <= retries
            /\ t.fails <= t.attempt
            /\ (t.st = "done" /\ t.ret # None)
                  => /\ t.fails < retries
                     /\ t.attempt = t.fails + 1
                     /\ t.ret[1] = k[2][1] /\ t.ret[2] = k[2][2]
            /\ (t.st = "done" /\ t.resp # None /\ t.resp[1] = 200
                              /\ t.resp[2] # BLACK_TILE_BYTE_SIZE)
                  => t.ret # None
            /\ (t.st # "new" /\ t.fails >= retries)
                  => (t.st = "done" /\ t.ret = None /\ t.attempt = retries)

C1_RetryCeiling ==
    /\ []C1_Inv
    /\ [][\A k \in DOMAIN tile : tile[k].st = "done" => tile'[k] = tile[k]]_vars

\* two transient failures, then the third attempt returns the tile
C1_Witness ==
    \E k \in DOMAIN tile :
        /\ retries = 3
        /\ tile[k].st = "done"
        /\ tile[k].ret # None
        /\ tile[k].fails = 2
        /\ tile[k].attempt = 3

\* C2: a response that declares Content-Length 1184 ends the call at once,
\* whatever its status: the call has returned None, the body is never read
\* or decoded, no backoff sleep follows, and the attempt that received the
\* response is the last one (the first one, unless a transport failure
\* came before it).
C2_BlackTile ==
    \A k \in DOMAIN tile :
        LET t == tile[k]
        IN  (t.resp # None /\ t.resp[2] = BLACK_TILE_BYTE_SIZE)
               => /\ t.st = "done"
                  /\ t.ret = None
                  /\ t.attempt = t.fails + 1
                  /\ t.fails = 0 => t.attempt = 1

\* status 200 with the black-tile length, on the first attempt of three
C2_Witness ==
    \E k \in DOMAIN tile :
        /\ retries = 3
        /\ tile[k].st = "done"
        /\ tile[k].resp = <<200, BLACK_TILE_BYTE_SIZE>>
        /\ tile[k].ret = None
        /\ tile[k].attempt = 1

\* C3: a response whose status is not 200 ends the call at once with None:
\* it is not retried, whatever the attempt limit, and when it is the first
\* response the call made exactly one attempt.
C3_NonSuccessStatus ==
    \A k \in DOMAIN tile :
        LET t == tile[k]
        IN  (t.resp # None /\ t.resp[1] # 200)
               => /\ t.st = "done"
                  /\ t.ret = None
                  /\ t.attempt = t.fails + 1
                  /\ t.attempt <= retries
                  /\ t.fails = 0 => t.attempt = 1

\* status 500 with an ordinary length, on the first attempt of three
C3_Witness ==
    \E k \in DOMAIN tile :
        /\ retries = 3
        /\ tile[k].st = "done"
        /\ tile[k].resp # None
        /\ tile[k].resp[1] = 500
        /\ tile[k].resp[2] # BLACK_TILE_BYTE_SIZE
        /\ tile[k].ret = None
        /\ tile[k].attempt = 1

---------------------------------------------------------------------------
(* Properties of a batch (Spec).                                           *)

\* the tile requests in flight: session.get or response.read() is awaited
InFlight == Cardinality({k \in DOMAIN tile : tile[k].st \in {"get", "read"}})

\* C4: in every reachable state of a batch the number of tile requests in
\* flight, over all panoramas, is at most the configured tile concurrency.
C4_TileLimit == InFlight <= max_tile

\* the jobs inside `async with sem_pano`: fan-out started, no result yet
Holding == Cardinality({p \in DOMAIN job : job[p].pc \in {"gather", "dims"}})

\* C5: the jobs that started their fan-out and have not returned never
\* outnumber the semaphore's capacity; each of them holds exactly one permit;
\* a job that returned, on whatever path, gave its permit back, so that a
\* completed batch leaves the semaphore with all its initial permits.
C5_PanoSemaphore ==
    /\ Holding <= max_pano
    /\ sem_pano = max_pano - Holding
    /\ batch.pc = "done" => sem_pano = max_pano

\* a finished batch of three jobs on two permits that took the three exits
C5_Witness ==
    /\ batch.pc = "done"
    /\ Len(panoids) = 3
    /\ max_pano = 2
    /\ sem_pano = 2
    /\ \E p \in DOMAIN job : job[p].diag = "OK"
    /\ \E p \in DOMAIN job : job[p].diag = "FAIL"
    /\ \E p \in DOMAIN job : job[p].diag = "PROCESSING ERROR"

\* C6: the tuple fetch_panos returns holds the number of identifiers given
\* and the number of jobs that returned a result, whatever the order in
\* which the jobs completed; so 0 <= succeeded <= total.
C6_BatchCounts ==
    batch.pc = "done" =>
        /\ batch.ret[1] = Len(panoids)
        /\ batch.ret[2] = Cardinality({p \in DOMAIN job : job[p].ret # None})
        /\ 0 <= batch.ret[2]
        /\ batch.ret[2] <= batch.ret[1]
        /\ batch.ret[3] = OUTPUT_DIR

\* three identifiers, every tile fetch of the second returns None: (3, 2)
C6_Witness ==
    /\ batch.pc = "done"
    /\ panoids = <<1, 2, 3>>
    /\ fake # None
    /\ fake.bad = {2}
    /\ job[1].ret # None
    /\ job[2].ret = None
    /\ job[3].ret # None
    /\ batch.ret = <<3, 2, OUTPUT_DIR>>

\* C7: an exception raised inside a job is caught by that job: the job has
\* returned None with the PROCESSING ERROR diagnostic, the step that caught
\* it changed no other job and not the batch, the jobs still to run are
\* never all left waiting for a permit nobody holds, and the batch returns
\* its outcome once every job has.
C7_Inv ==
    /\ \A p \in DOMAIN job :
          job[p].error # "" => /\ job[p].pc = "done"
                               /\ job[p].ret = None
                               /\ job[p].diag = "PROCESSING ERROR"
    /\ batch.pc \in {"call", "gather", "done"}
    /\ batch.pc = "done" => /\ \A p \in DOMAIN job : job[p].pc = "done"
                            /\ batch.ret # None
    /\ (batch.pc = "gather" /\ \E p \in DOMAIN job : job[p].pc # "done")
          => \/ \E p \in DOMAIN job : job[p].pc \in {"new", "gather", "dims"}
             \/ \E p \in DOMAIN job : job[p].pc = "wait" /\ sem_pano > 0

C7_Isolation ==
    /\ []C7_Inv
    /\ [][\A p \in DOMAIN job :
            (job[p].error = "" /\ job'[p].error # "")
               => /\ batch' = batch
                  /\ \A q \in DOMAIN job \ {p} : job'[q] = job[q]]_vars

\* the first job raised in its stitch, the second went on to return a result
C7_Witness ==
    /\ batch.pc = "done"
    /\ Len(panoids) >= 2
    /\ job[1].error = "OSError"
    /\ job[1].calls = <<"gather", "dims", "stitch">>
    /\ job[2].ret # None
    /\ batch.ret[2] >= 1

\* C8 as stated: when the batch completes, for every job an artifact for
\* its identifier exists if and only if that job returned a result.
C8_Original ==
    batch.pc = "done" =>
        \A p \in DOMAIN job : (panoids[p] \in files) <=> (job[p].ret # None)

\* C8: at every moment the artifacts written are those of the identifiers
\* for which some job returned a result; for an identifier that occurs once
\* in the list, the artifact exists if and only if its job returned a result.
\* An identifier given twice can have an artifact, written by one of its
\* jobs, while the other job returned None.
C8_ArtifactIffResult ==
    /\ files = {panoids[p] : p \in {q \in DOMAIN job : job[q].ret # None}}
    /\ \A p \in DOMAIN job :
          (\A q \in DOMAIN job : panoids[q] = panoids[p] => q = p)
             => ((panoids[p] \in files) <=> (job[p].ret # None))

\* one identifier given twice: the first job found no tile, the second saved
C8_Witness ==
    /\ batch.pc = "done"
    /\ panoids = <<1, 1>>
    /\ job[1].ret = None
    /\ job[2].ret # None
    /\ files = {1}

\* C9: when every fetch_tile task of a job returned None, the step that
\* follows the gather returns None with the FAIL diagnostic and calls
\* neither determine_dimensions nor stitch_tiles nor save_img: no artifact
\* is written and no exception is caught.
C9_NoTiles ==
    [][\A p \in DOMAIN job :
         (/\ job[p].pc = "gather"
          /\ job'[p].pc # "gather"
          /\ \A i \in 1..Len(Grid[zoom_level]) : GatherResults(p)[i] = None)
            => /\ job'[p] = [job[p] EXCEPT !.pc = "done", !.diag = "FAIL",
                                            !.order = job'[p].order]
               /\ job'[p].calls = <<"gather">>
               /\ job'[p].ret = None
               /\ files' = files]_vars

\* both requests of a zoom-1 grid were answered, none with a tile
C9_Witness ==
    /\ fake = None
    /\ zoom_level = 1
    /\ \E p \in DOMAIN job :
          /\ job[p].pc = "done"
          /\ job[p].diag = "FAIL"
          /\ job[p].calls = <<"gather">>
          /\ job[p].tiles = <<>>
          /\ job[p].ret = None

---------------------------------------------------------------------------
(* Properties of determine_dimensions, checked on a direct call (SpecDim). *)

\* C10: at zoom 3 and above, for every pair of observed counts, the call
\* returns None if and only if the pair has no entry in TILE_COUNT_TO_SIZE,
\* returns that entry otherwise, hands nothing to the executor and raises
\* nothing.
C10_TableLookup ==
    (zoom_level >= 3 /\ dim.pc # "call") =>
        LET key == <<dim.x_tiles_count, dim.y_tiles_count>>
        IN  /\ dim.pc = "done"
            /\ ~dim.sampled
            /\ (dim.ret = None) <=> (key \notin DOMAIN TILE_COUNT_TO_SIZE)
            /\ key \in DOMAIN TILE_COUNT_TO_SIZE => dim.ret = TILE_COUNT_TO_SIZE[key]

\* the counts (2, 2) at zoom 3 have no entry: None
C10_Witness ==
    /\ zoom_level = 3
    /\ dim.pc = "done"
    /\ dim.x_tiles_count = 2
    /\ dim.y_tiles_count = 2
    /\ dim.ret = None

\* C11: at zoom 0, 1 and 2 a call that returns has returned the
\* OLD_ZOOM_SIZES entry of the zoom when the pixel test on the sampled tile
\* is true (black_percentage > 55 on tiles[0] at zoom 0, has_black_bottom on
\* tiles[1] at zoom 1-2) and the ZOOM_SIZES entry when it is false, nothing
\* else, whatever the tile counts it was given.
C11_PixelTestSizes ==
    (zoom_level \in 0..2 /\ dim.pc = "done") =>
        LET sampled_tile == IF zoom_level = 0 THEN dim.tiles[1] ELSE dim.tiles[2]
            test == IF zoom_level = 0 THEN black_percentage_exceeds(sampled_tile[3])
                    ELSE has_black_bottom(sampled_tile[3])
        IN  /\ dim.sampled
            /\ dim.ret \in {OLD_ZOOM_SIZES[zoom_level], ZOOM_SIZES[zoom_level]}
            /\ test => dim.ret = OLD_ZOOM_SIZES[zoom_level]
            /\ ~test => dim.ret = ZOOM_SIZES[zoom_level]

\* zoom 2, black bottom rows on the second tile, counts that are a table key
C11_Witness ==
    /\ zoom_level = 2
    /\ dim.pc = "done"
    /\ Len(dim.tiles) = 2
    /\ ~dim.tiles[1][3].bottom
    /\ dim.tiles[2][3].bottom
    /\ dim.x_tiles_count = 8
    /\ dim.y_tiles_count = 4
    /\ dim.ret = <<1664, 832>>

\* C12: at zoom 0, a tile of which 55 in 100 pixels or more are near-black,
\* exactly 55 in 100 included, resolves to the legacy size (416, 208) and not
\* to (512, 256).
C12_DarkTileIsLegacy ==
    (zoom_level = 0 /\ dim.pc = "done") =>
        LET img == dim.tiles[1][3]
        IN  img.black * 100 >= DarkThreshold * img.size
               => (dim.ret = <<416, 208>> /\ dim.ret # <<512, 256>>)

\* a lone tile with exactly 11 of its 20 pixels near-black
C12_Witness ==
    /\ zoom_level = 0
    /\ dim.pc = "done"
    /\ Len(dim.tiles) = 1
    /\ dim.tiles[1][3].black = 11
    /\ dim.tiles[1][3].size = 20
    /\ dim.ret = <<416, 208>>

---------------------------------------------------------------------------
(* More properties of a batch (Spec).                                      *)

\* C13: when the gather of a job at zoom 3 or above returns tiles whose
\* extent has no entry in TILE_COUNT_TO_SIZE, the job returns None in that
\* very step, having called determine_dimensions but neither stitch_tiles
\* nor save_img, and no artifact is written.
C13_NoSizeNoArtifact ==
    [][\A p \in DOMAIN job :
         (/\ job[p].pc = "gather"
          /\ job'[p].pc # "gather"
          /\ zoom_level \in DOMAIN TILES_AXIS_COUNT
          /\ zoom_level >= 3
          /\ Surviving(GatherResults(p)) # <<>>
          /\ <<CountDistinct(Surviving(GatherResults(p)), 1),
               CountDistinct(Surviving(GatherResults(p)), 2)>>
                \notin DOMAIN TILE_COUNT_TO_SIZE)
            => /\ job'[p].pc = "done"
               /\ job'[p].ret = None
               /\ job'[p].calls = <<"gather", "dims">>
               /\ files' = files]_vars

\* a zoom-3 job whose only surviving tile gives the extent (1, 1)
C13_Witness ==
    /\ zoom_level = 3
    /\ \E p \in DOMAIN job :
          /\ job[p].pc = "done"
          /\ Len(job[p].tiles) = 1
          /\ job[p].error = "TypeError"
          /\ job[p].calls = <<"gather", "dims">>
          /\ job[p].ret = None
          /\ panoids[p] \notin files

\* the order in which a job calls its collaborators
Phases == <<"gather", "dims", "stitch", "save">>

\* C14: a job's phases are ordered: the collaborators it has called so far
\* are a prefix of gather, determine_dimensions, stitch_tiles, save_img; it
\* leaves the gather only when every fetch_tile task of its panorama has
\* returned; and once determine_dimensions has been called none of its
\* fetches is still running.
C14_Inv ==
    \A p \in DOMAIN job :
        /\ Len(job[p].calls) <= Len(Phases)
        /\ job[p].calls = SubSeq(Phases, 1, Len(job[p].calls))
        /\ job[p].pc = "dims" => job[p].calls = <<"gather", "dims">>
        /\ Len(job[p].calls) >= 2
              => \A k \in DOMAIN tile : k[1] = p => tile[k].st = "done"

C14_PhaseOrder ==
    /\ []C14_Inv
    /\ [][\A p \in DOMAIN job :
            (job[p].pc = "gather" /\ job'[p].pc # "gather")
               => \A k \in JobTasks(p) : tile[k].st = "done"]_vars

\* a zoom-1 job that went through the four phases after both its fetches
C14_Witness ==
    /\ fake = None
    /\ zoom_level = 1
    /\ \E p \in DOMAIN job :
          /\ job[p].pc = "done"
          /\ job[p].calls = Phases
          /\ Len(job[p].tiles) = 2
          /\ job[p].ret # None

\* C15: on an empty identifier list fetch_panos creates no job and no
\* fetch_tile task, writes nothing, and returns (0, 0, output_dir).
C15_EmptyList ==
    panoids = <<>> =>
        /\ job = <<>>
        /\ tile = <<>>
        /\ files = {}
        /\ batch.pc = "done" => batch.ret = <<0, 0, OUTPUT_DIR>>

\* the batch over the empty list has returned
C15_Witness ==
    /\ panoids = <<>>
    /\ batch.pc = "done"
    /\ batch.ret = <<0, 0, OUTPUT_DIR>>
    /\ job = <<>>

\* C16: when fetch_panos has returned, the session is closed and the
\* executor shut down, whatever the jobs returned; the executor is shut down
\* only when every job has returned, so a job that hands a pixel test to the
\* executor always finds it open.
C16_Teardown ==
    /\ batch.pc = "done" => (batch.session = "closed" /\ batch.executor = "shutdown")
    /\ batch.executor = "shutdown" => \A p \in DOMAIN job : job[p].pc = "done"
    /\ batch.session = "closed" => batch.executor = "shutdown"
    /\ \A p \in DOMAIN job :
          job[p].pc \in {"gather", "dims"} => (batch.executor = "open" /\ batch.session = "open")

\* a finished batch with a result, a job without tiles and a caught exception
C16_Witness ==
    /\ batch.pc = "done"
    /\ batch.session = "closed"
    /\ batch.executor = "shutdown"
    /\ \E p \in DOMAIN job : job[p].ret # None /\ "dims" \in {job[p].calls[i] : i \in 1..Len(job[p].calls)}
    /\ \E p \in DOMAIN job : job[p].diag = "FAIL"
    /\ \E p \in DOMAIN job : job[p].error # ""

---------------------------------------------------------------------------
(* Properties of stitch_tiles, checked on a direct call (SpecStitch).      *)

\* the tiles of a list as a set, and the offsets of those that fall inside
\* a canvas of the given size
TileSet(tiles) == {tiles[i] : i \in 1..Len(tiles)}

OffsetsInside(tileset, width, height) ==
    {<<t[1] * 512, t[2] * 512>> : t \in {u \in tileset : u[1] * 512 < width /\ u[2] * 512 < height}}

\* C17: the canvas stitch_tiles returns has exactly the size asked for; it
\* shows each tile, as it is, at the offset (x * 512, y * 512); everywhere
\* else it is blank; so it is determined by the set of tiles and the size,
\* not by the order of the list.
C17_Stitch ==
    stitch.pc = "done" =>
        LET tileset == TileSet(stitch.tiles)
            canvas == stitch.ret
        IN  /\ canvas.size = <<stitch.width, stitch.height>>
            /\ DOMAIN canvas.px = OffsetsInside(tileset, stitch.width, stitch.height)
            /\ \A t \in tileset :
                  <<t[1] * 512, t[2] * 512>> \in DOMAIN canvas.px
                     => canvas.px[<<t[1] * 512, t[2] * 512>>] = t[3]
            /\ \A o \in DOMAIN canvas.px : o[1] % TILE_SIZE = 0 /\ o[2] % TILE_SIZE = 0

\* three tiles of a 2 x 2 grid given out of grid order: (1, 1), (0, 0), (1, 0)
C17_Witness ==
    /\ stitch.pc = "done"
    /\ Len(stitch.tiles) = 3
    /\ <<stitch.tiles[1][1], stitch.tiles[1][2]>> = <<1, 1>>
    /\ <<stitch.tiles[2][1], stitch.tiles[2][2]>> = <<0, 0>>
    /\ <<stitch.tiles[3][1], stitch.tiles[3][2]>> = <<1, 0>>
    /\ stitch.ret.size = <<1024, 512>>
    /\ DOMAIN stitch.ret.px = {<<0, 0>>, <<512, 0>>}

---------------------------------------------------------------------------
(* Properties of a job at each zoom level (SpecJob).                       *)

\* the cells of the grid of zoom z: x in 0..tx, y in 0..ty
GridCells(z) ==
    {<<x, y>> : x \in 0..TILES_AXIS_COUNT[z][1], y \in 0..TILES_AXIS_COUNT[z][2]}

\* C18: at each zoom 0..5 a job requests each cell of the grid once and
\* nothing else; the tiles that survive lie in the grid, no two at the same
\* coordinate; the extent it reports is the number of distinct x and of
\* distinct y among them; and when every fetch gave a tile (and no
\* collaborator raised) the job returned a result with tiles = (tx + 1,
\* ty + 1) and its artifact is written.
C18_Grid ==
    LET cells == GridCells(zoom_level)
        requests == Grid[zoom_level]
    IN  /\ Len(requests) = Cardinality(cells)
        /\ {requests[i] : i \in 1..Len(requests)} = cells
        /\ \A p \in DOMAIN job :
              LET tiles == job[p].tiles
                  xs == {tiles[i][1] : i \in 1..Len(tiles)}
                  ys == {tiles[i][2] : i \in 1..Len(tiles)}
              IN  /\ (fake = None /\ job[p].pc = "gather")
                        => {k[2] : k \in {q \in DOMAIN tile : q[1] = p}} = cells
                  /\ {<<tiles[i][1], tiles[i][2]>> : i \in 1..Len(tiles)} \subseteq cells
                  /\ Cardinality({<<tiles[i][1], tiles[i][2]>> : i \in 1..Len(tiles)}) = Len(tiles)
                  /\ job[p].ret # None
                        => job[p].ret[4] = <<Cardinality(xs), Cardinality(ys)>>
                  /\ (job[p].pc = "done" /\ Len(tiles) = Cardinality(cells)
                                         /\ job[p].error = "")
                        => /\ job[p].ret # None
                           /\ job[p].ret[4] = <<TILES_AXIS_COUNT[zoom_level][1] + 1,
                                                TILES_AXIS_COUNT[zoom_level][2] + 1>>
                           /\ panoids[p] \in files

\* zoom 5: all 512 fetches gave a tile, the job reports 32 x 16
C18_Witness ==
    /\ zoom_level = 5
    /\ \E p \in DOMAIN job :
          /\ job[p].pc = "done"
          /\ Len(job[p].tiles) = 512
          /\ job[p].ret # None
          /\ job[p].ret[4] = <<32, 16>>
          /\ panoids[p] \in files

---------------------------------------------------------------------------
(* Release of tiles (Spec).  The only tile.close() is core.py:159, inside  *)
(* the loop of stitch_tiles; job.closed lists the coordinates closed.      *)

\* how many times the tile at coordinate c was closed in a list of closes
TimesClosed(closed, c) == Cardinality({k \in 1..Len(closed) : closed[k] = c})

\* C19: when a job has ended, however it ended, each of its surviving
\* tiles has been closed exactly once.
C19_ReleasedOnce ==
    \A p \in DOMAIN job :
        job[p].pc = "done" =>
            \A i \in 1..Len(job[p].tiles) :
                TimesClosed(job[p].closed, <<job[p].tiles[i][1], job[p].tiles[i][2]>>) = 1

\* what the code does keep: no tile is closed twice, only surviving tiles
\* are closed, and a job that returned a result closed each of them once
C19_ClosedByStitcherOnly ==
    \A p \in DOMAIN job :
        LET tiles == job[p].tiles
            coords == {<<tiles[i][1], tiles[i][2]>> : i \in 1..Len(tiles)}
        IN  /\ \A c \in coords : TimesClosed(job[p].closed, c) <= 1
            /\ {job[p].closed[k] : k \in 1..Len(job[p].closed)} \subseteq coords
            /\ job[p].ret # None => \A c \in coords : TimesClosed(job[p].closed, c) = 1

\* a job that ended on a failed size lookup with a tile it never closed
C19_Leak ==
    \E p \in DOMAIN job :
        /\ job[p].pc = "done"
        /\ job[p].error = "TypeError"
        /\ Len(job[p].tiles) > 0
        /\ job[p].closed = <<>>

---------------------------------------------------------------------------
(* Alignment of the sizes determine_dimensions returns (SpecDim).          *)

\* the call returned a current-format size: the pixel test said "not
\* legacy" at zoom 0-2, or the extent is that of a "new" table entry
ReturnedCurrent ==
    /\ dim.pc = "done"
    /\ IF dim.sampled
       THEN ~PixelTest(zoom_level, dim.tiles[RefIndex(zoom_level)][3])
       ELSE <<dim.x_tiles_count, dim.y_tiles_count>> \in NewCounts

\* C20 as stated: every current-format size returned has a positive width
\* and height, each a multiple of the tile edge 512.
C20_Original ==
    ReturnedCurrent =>
        /\ dim.ret[1] > 0 /\ dim.ret[1] % TILE_SIZE = 0
        /\ dim.ret[2] > 0 /\ dim.ret[2] % TILE_SIZE = 0

\* C20: every current-format size returned has a positive width that is a
\* multiple of the tile edge 512 and a height of half the width; the height
\* is a multiple of 512 too, except at zoom 0, where it is 256, half a tile.
C20_Aligned ==
    ReturnedCurrent =>
        /\ dim.ret # None
        /\ dim.ret[1] > 0 /\ dim.ret[1] % TILE_SIZE = 0
        /\ dim.ret[2] > 0 /\ 2 * dim.ret[2] = dim.ret[1]
        /\ IF zoom_level = 0
           THEN dim.ret = <<TILE_SIZE, TILE_SIZE \div 2>>
           ELSE dim.ret[2] % TILE_SIZE = 0

\* zoom 0, the tile is not dark: the current size 512 x 256 is returned
C20_Witness ==
    /\ zoom_level = 0
    /\ ReturnedCurrent
    /\ dim.ret = <<512, 256>>

---------------------------------------------------------------------------
(* Backoff of fetch_tile, checked on a direct call (SpecTile).             *)

\* C21: the n-th delay of a fetch is backoff * 2^(n-1) and follows the n-th
\* failed attempt, n < retries; a fetch that is sleeping or in attempt n+1
\* has slept (or is sleeping) n delays; nothing is slept after the last
\* failed attempt or after a black-tile or non-success response; so a fetch
\* whose every attempt failed has slept exactly retries - 1 delays.
C21_Backoff ==
    \A k \in DOMAIN tile :
        LET t == tile[k]
        IN  k[1] = 0 =>
            /\ \A n \in 1..Len(t.waits) : t.waits[n] = 2 ^ (n - 1) /\ n < retries
            /\ t.st = "sleep" => (Len(t.waits) = t.attempt /\ t.fails = t.attempt)
            /\ t.st \in {"get", "read"} => Len(t.waits) = t.attempt - 1
            /\ (t.st = "done" /\ t.resp # None /\ t.ret = None)
                  => (Len(t.waits) = t.attempt - 1 /\ t.fails = t.attempt - 1)
            /\ (t.st = "done" /\ retries >= 1 /\ t.fails = retries)
                  => (Len(t.waits) = retries - 1 /\ t.ret = None)
            /\ Len(t.waits) <= t.fails

\* a fetch with four attempts, all failed: it slept backoff * 1, 2, 4
C21_Witness ==
    \E k \in DOMAIN tile :
        /\ k[1] = 0
        /\ retries = 4
        /\ tile[k].st = "done"
        /\ tile[k].fails = 4
        /\ tile[k].waits = <<1, 2, 4>>

---------------------------------------------------------------------------
(* A size lookup that finds no table entry (Spec).                         *)

\* the job ended with tiles whose extent TILE_COUNT_TO_SIZE has no entry for
LookupMiss(p) ==
    /\ job[p].pc = "done"
    /\ zoom_level \in DOMAIN TILES_AXIS_COUNT
    /\ ~SamplesPixels(zoom_level)
    /\ job[p].tiles # <<>>
    /\ SizeFromCounts(CountDistinct(job[p].tiles, 1), CountDistinct(job[p].tiles, 2)) = None

\* C22: a job whose size lookup missed returned None without an exception
\* caught at the job boundary and without an error diagnostic.
C22_QuietLookupMiss ==
    \A p \in DOMAIN job :
        LookupMiss(p) =>
            /\ job[p].ret = None
            /\ job[p].error = ""
            /\ job[p].diag # "PROCESSING ERROR"

---------------------------------------------------------------------------
(* Outcome of fetch_tile, checked on a direct call whose awaits all        *)
(* complete: session.get and response.read() run under ClientTimeout(30),  *)
(* asyncio.sleep is finite.                                                *)

SpecTileFair == InitTile /\ [][FetchNext]_vars /\ WF_vars(FetchNext)

\* the value is None or the tuple (x, y, image) of the requested cell
TileOrNone(k, ret) ==
    \/ ret = None
    \/ \E img \in Images : ret = <<k[2][1], k[2][2], img>>

\* C23: whatever the responses and the failures of session.get, of
\* response.read() and of the decoder, a fetch_tile call never ends by an
\* exception, the value it holds is None or the tile of the cell asked for,
\* and it eventually returns.
C23_NeverRaises ==
    /\ [](\A k \in DOMAIN tile :
            /\ tile[k].st \in {"new", "get", "read", "sleep", "done"}
            /\ TileOrNone(k, tile[k].ret)
            /\ tile[k].st # "done" => tile[k].ret = None)
    /\ <>(\A k \in DOMAIN tile : tile[k].st = "done")

\* a fetch that returned its tile after a transport and a decode failure
C23_Witness ==
    \E k \in DOMAIN tile :
        /\ k[1] = 0
        /\ tile[k].st = "done"
        /\ tile[k].fails = 2
        /\ tile[k].attempt = 3
        /\ tile[k].ret # None
        /\ tile[k].ret[1] = k[2][1] /\ tile[k].ret[2] = k[2][2]

---------------------------------------------------------------------------
(* Termination of a batch.  The event loop runs every ready coroutine, and *)
(* every network call, sleep and executor call returns or fails: whenever  *)
(* some step is possible, a step is taken.                                 *)

\* batches of more identifiers than the semaphore has permits, all
\* distinct (a repeated identifier changes only which file is overwritten)
InitFair ==
    /\ Init
    /\ Len(panoids) > max_pano
    /\ \A i, h \in 1..Len(panoids) : panoids[i] = panoids[h] => i = h

SpecFair == InitFair /\ [][Next]_vars /\ WF_vars(Next)

\* C24: every job fetch_panos launched eventually returns, and fetch_panos
\* eventually returns its tuple, whatever the number of identifiers and the
\* capacity (>= 1) of the semaphore.
C24_Terminates ==
    <>(/\ batch.pc = "done"
       /\ batch.ret # None
       /\ DOMAIN job = 1..Len(panoids)
       /\ \A p \in DOMAIN job : job[p].pc = "done"
       /\ sem_pano = max_pano)

\* three identifiers on one permit: the batch has returned, and the third
\* job, which had to wait for the permit twice over, returned a result
C24_Witness ==
    /\ Len(panoids) = 3
    /\ max_pano = 1
    /\ batch.pc = "done"
    /\ batch.ret[1] = 3
    /\ job[3].pc = "done"
    /\ job[3].ret # None

---------------------------------------------------------------------------
(* Sizes resolved from partial grids (SpecJob).                            *)

\* C25: in a job that returned a result, every surviving tile's offset
\* (x * 512, y * 512) lies inside the canvas of the reported size.
C25_TilesInsideCanvas ==
    \A p \in DOMAIN job :
        job[p].ret # None =>
            \A i \in 1..Len(job[p].tiles) :
                /\ job[p].tiles[i][1] * TILE_SIZE < job[p].ret[3][1]
                /\ job[p].tiles[i][2] * TILE_SIZE < job[p].ret[3][2]

\* the two sizes that belong to a zoom level 3..5
SizesOfZoom(z) ==
    CASE z = 3 -> {<<4096, 2048>>, <<3328, 1664>>}
      [] z = 4 -> {<<8192, 4096>>, <<6656, 3328>>}
      [] z = 5 -> {<<16384, 8192>>, <<13312, 6656>>}

\* C26: a job at zoom 3..5 that returned a result reports one of the two
\* sizes of its zoom level.
C26_SizeOfOwnZoom ==
    \A p \in DOMAIN job :
        (job[p].ret # None /\ zoom_level \in 3..5)
            => job[p].ret[3] \in SizesOfZoom(zoom_level)

---------------------------------------------------------------------------
(* A single surviving tile at zoom 1-2 (SpecJob).                          *)

\* C27: at zoom 1 or 2 a job with exactly one surviving tile never reaches
\* the executor, the stitcher or save_img; it returns None through the
\* except clause (tiles[1] raises IndexError), leaves no artifact and gives
\* back its permit; the batch does not raise and counts the job as failed.
C27_OneTile ==
    \A p \in DOMAIN job :
        (zoom_level \in {1, 2} /\ Len(job[p].tiles) = 1) =>
            /\ job[p].pc = "done"
            /\ job[p].ret = None
            /\ job[p].error = "IndexError"
            /\ job[p].diag = "PROCESSING ERROR"
            /\ job[p].calls = <<"gather", "dims">>
            /\ panoids[p] \notin files
            /\ batch.pc \in {"gather", "done"}
            /\ batch.pc = "done" =>
                  /\ batch.ret[1] = Len(panoids)
                  /\ batch.ret[2] = Cardinality({q \in DOMAIN job : job[q].ret # None})

\* zoom 2: the batch has returned, its job had one tile out of eight
C27_Witness ==
    /\ zoom_level = 2
    /\ batch.pc = "done"
    /\ batch.ret[2] = 0
    /\ \E p \in DOMAIN job : Len(job[p].tiles) = 1 /\ job[p].error = "IndexError"

---------------------------------------------------------------------------
(* The order of the surviving tiles (Spec).                                *)

\* the place of a cell in the enumeration of the grid, x outer, y inner
GridIndex(c) == c[1] * (TILES_AXIS_COUNT[zoom_level][2] + 1) + c[2] + 1

\* the n-th of a set of tiles in grid order
NthInGrid(tileset, n) ==
    CHOOSE t \in tileset :
        Cardinality({u \in tileset : GridIndex(<<u[1], u[2]>>) < GridIndex(<<t[1], t[2]>>)}) = n - 1

\* C28: whatever the order in which a job's fetches returned, its list of
\* surviving tiles is in grid order, and the size a job at zoom 0-2 resolved
\* is the one given by the pixel test on the first (zoom 0) or second (zoom
\* 1-2) surviving tile in grid order: it depends on the set of surviving
\* tiles alone.
C28_OrderIndependent ==
    \A p \in DOMAIN job :
        LET tiles == job[p].tiles
            tileset == {tiles[i] : i \in 1..Len(tiles)}
        IN  /\ \A i \in 1..(Len(tiles) - 1) :
                  GridIndex(<<tiles[i][1], tiles[i][2]>>)
                     < GridIndex(<<tiles[i + 1][1], tiles[i + 1][2]>>)
            /\ (job[p].ret # None /\ SamplesPixels(zoom_level))
                  => job[p].ret[3] =
                        SizeFromPixels(zoom_level,
                            PixelTest(zoom_level, NthInGrid(tileset, RefIndex(zoom_level))[3]))

\* zoom 1: the fetch of (1, 0) returned before that of (0, 0), the two
\* tiles differ, and the job resolved its size from the tile (1, 0)
C28_Witness ==
    /\ zoom_level = 1
    /\ \E p \in DOMAIN job :
          /\ job[p].ret # None
          /\ job[p].order = <<<<1, 0>>, <<0, 0>>>>
          /\ <<job[p].tiles[2][1], job[p].tiles[2][2]>> = <<1, 0>>
          /\ job[p].tiles[1][3] # job[p].tiles[2][3]
          /\ job[p].ret[3] = OLD_ZOOM_SIZES[1]

---------------------------------------------------------------------------
(* A zoom level TILES_AXIS_COUNT has no entry for (Spec).                  *)

\* C29: with a zoom level outside 0..5 no fetch_tile coroutine is ever
\* created and nothing is written; each job that has run returned None
\* through the except clause (KeyError) without calling any collaborator
\* and gave back its permit; the batch does not raise, and returns
\* (number of identifiers, 0, output directory).
C29_InvalidZoom ==
    zoom_level \notin DOMAIN TILES_AXIS_COUNT =>
        /\ tile = <<>>
        /\ files = {}
        /\ \A p \in DOMAIN job :
              /\ job[p].pc \in {"new", "wait", "done"}
              /\ job[p].calls = <<>>
              /\ job[p].ret = None
              /\ job[p].pc = "done"
                    => (job[p].error = "KeyError" /\ job[p].diag = "PROCESSING ERROR")
        /\ batch.pc \in {"call", "gather", "done"}
        /\ batch.pc = "done" => batch.ret = <<Len(panoids), 0, OUTPUT_DIR>>

\* a batch of three identifiers at zoom 6 has returned (3, 0)
C29_Witness ==
    /\ zoom_level = 6
    /\ Len(panoids) = 3
    /\ batch.pc = "done"
    /\ batch.ret[1] = 3
    /\ batch.ret[2] = 0
    /\ \A p \in DOMAIN job : job[p].error = "KeyError"

---------------------------------------------------------------------------
(* Lines 223-243 run without suspension (Spec).                            *)

\* the collaborators a job has called include the stitcher
Stitched(j) == \E i \in 1..Len(j.calls) : j.calls[i] = "stitch"

\* C30: the step in which a job's size resolution returns is the step in
\* which the job returns: it is a step of that job alone (no other job and
\* no tile fetch moves in it), a job that has called the stitcher has
\* returned, and an artifact is written only in the step in which its job
\* returns its result.
C30_NoSuspension ==
    [][/\ \A p \in DOMAIN job :
             (job[p].pc = "dims" /\ job'[p] # job[p])
                => /\ job'[p].pc = "done"
                   /\ tile' = tile
                   /\ \A q \in DOMAIN job \ {p} : job'[q] = job[q]
       /\ \A p \in DOMAIN job' : Stitched(job'[p]) => job'[p].pc = "done"
       /\ files' # files
             => \E p \in DOMAIN job :
                   /\ job[p].pc # "done"
                   /\ job'[p].pc = "done"
                   /\ job'[p].ret # None
                   /\ files' = files \cup {panoids[p]}
                   /\ tile' = [k \in DOMAIN tile \ JobTasks(p) |-> tile[k]]
                   /\ \A q \in DOMAIN job \ {p} : job'[q] = job[q]]_vars

\* one job has written its artifact and returned its result while another
\* still waits for its pixel test
C30_Witness ==
    \E p, q \in DOMAIN job :
        /\ job[p].pc = "done"
        /\ job[p].calls = <<"gather", "dims", "stitch", "save">>
        /\ job[p].ret # None
        /\ panoids[p] \in files
        /\ job[q].pc = "dims"

============================================================================
